---- MODULE Spec2Model ----
(***************************************************************************)
(* nflaunch: one NextflowLauncher.run from parsed CLI arguments to the     *)
(* submitted (or dry-run) Google Cloud Batch job.  Strings are TLA+        *)
(* strings; Python's string methods are operators over them.               *)
(***************************************************************************)
EXTENDS Integers, Sequences, FiniteSets, TLC

VARIABLES args, job_config, context, pc, error, trace, api_calls, files, log,
          job_request, registries, calls

vars == <<args, job_config, context, pc, error, trace, api_calls, files, log,
          job_request, registries, calls>>

-----------------------------------------------------------------------------
(* Python values and string methods *)

\* Python's None (falsy, formatted as the text None)
None == "<None>"

\* bool(x) for the str | None values the configuration holds
Truthy(x) == x # None /\ x # ""

\* str(x) inside an f-string
Fmt(x) == IF x = None THEN "None" ELSE x

CharAt(s, i) == SubSeq(s, i, i)

\* str.startswith
startswith(s, p) == Len(s) >= Len(p) /\ SubSeq(s, 1, Len(p)) = p

\* str.endswith
endswith(s, p) == Len(s) >= Len(p) /\ SubSeq(s, Len(s) - Len(p) + 1, Len(s)) = p

\* sub in s
Contains(s, sub) == \E i \in 1..(Len(s) - Len(sub) + 1) : SubSeq(s, i, i + Len(sub) - 1) = sub

\* s[:n]
Prefix(s, n) == SubSeq(s, 1, IF n < Len(s) THEN n ELSE Len(s))

\* s[-n:]
Suffix(s, n) == SubSeq(s, IF Len(s) > n THEN Len(s) - n + 1 ELSE 1, Len(s))

\* positions of the separator character c in s
SepPositions(s, c) == {i \in 1..Len(s) : CharAt(s, i) = c}

Max(S) == CHOOSE x \in S : \A y \in S : y <= x

Min(S) == CHOOSE x \in S : \A y \in S : x <= y

\* str.split(c) for a one-character separator: the sequence of the parts
RECURSIVE split(_, _)
split(s, c) ==
    LET pos == SepPositions(s, c)
    IN  IF pos = {} THEN <<s>>
        ELSE <<SubSeq(s, 1, Min(pos) - 1)>> \o split(SubSeq(s, Min(pos) + 1, Len(s)), c)

\* str.replace(a, b) for one-character a
RECURSIVE replace(_, _, _)
replace(s, a, b) ==
    IF s = "" THEN ""
    ELSE (IF CharAt(s, 1) = a THEN b ELSE CharAt(s, 1)) \o replace(SubSeq(s, 2, Len(s)), a, b)

UpperAlpha == "ABCDEFGHIJKLMNOPQRSTUVWXYZ"

LowerAlpha == "abcdefghijklmnopqrstuvwxyz"

\* the lower-case letter of each upper-case letter
LowerTable ==
    [c \in {CharAt(UpperAlpha, i) : i \in 1..26} |->
        CharAt(LowerAlpha, CHOOSE i \in 1..26 : CharAt(UpperAlpha, i) = c)]

LowerChar(c) == IF c \in DOMAIN LowerTable THEN LowerTable[c] ELSE c

\* str.lower
RECURSIVE lower(_)
lower(s) == IF s = "" THEN "" ELSE LowerChar(CharAt(s, 1)) \o lower(SubSeq(s, 2, Len(s)))

\* str.strip("/")
RECURSIVE strip_slash(_)
strip_slash(s) ==
    IF s = "" THEN ""
    ELSE IF CharAt(s, 1) = "/" THEN strip_slash(SubSeq(s, 2, Len(s)))
    ELSE IF CharAt(s, Len(s)) = "/" THEN strip_slash(SubSeq(s, 1, Len(s) - 1))
    ELSE s

\* dict.get(k): None when the key is absent
dict_get(d, k) == IF k \in DOMAIN d THEN d[k] ELSE None

\* the empty dict
EmptyDict == [k \in {} |-> ""]

\* None where a dict is expected
NoneDict == [k \in {"<None>"} |-> "<None>"]

\* None where an int is expected (every real value of such a field is >= 0)
NoneInt == 0 - 1

\* d[k] = v
dict_set(d, k, v) == [x \in (DOMAIN d) \cup {k} |-> IF x = k THEN v ELSE d[x]]

-----------------------------------------------------------------------------
(* The local filesystem and the process environment of one invocation *)

\* working directory of the process
Cwd == "/w"

\* regular files present before the run, in the order a traversal yields them
FsFiles ==
    << "/w/main.nf", "/w/params.yaml", "/w/custom.config", "/w/samplesheet.csv",
       "/w/exec.config", "/w/pipe/main.nf", "/w/pipe/.git/config",
       "/w/pipe/modules/a.nf", "/w/dir.nf/main.nf", "/w/.git/wf/main.nf",
       "/w/.git/wf/lib/b.nf", "/w/alt/custom.config", "/w/alt/samplesheet.csv" >>

\* directories present before the run
FsDirs ==
    {"/w", "/w/pipe", "/w/pipe/.git", "/w/pipe/modules", "/w/dir.nf", "/w/.git", "/w/.git/wf",
     "/w/.git/wf/lib", "/w/alt"}

\* pathlib.PurePath.name: the final component
Path_name(p) ==
    IF SepPositions(p, "/") = {} THEN p
    ELSE SubSeq(p, Max(SepPositions(p, "/")) + 1, Len(p))

\* pathlib.PurePath.parts without the root
Path_parts(p) == SelectSeq(split(p, "/"), LAMBDA x : x # "")

\* Path.resolve / resolve_path: absolute form of a path (no symlinks or dot
\* segments occur among the modelled paths)
resolve_path(value) == IF startswith(value, "/") THEN value ELSE Cwd \o "/" \o value

Path_is_dir(p) == resolve_path(p) \in FsDirs

Path_is_file(p) == \E i \in 1..Len(FsFiles) : FsFiles[i] = resolve_path(p)

Path_exists(p) == Path_is_dir(p) \/ Path_is_file(p)

\* os.cpu_count() of the host
CpuCount == 4

\* datetime.now().strftime("%Y%m%d_%H%M%S") at the time of the run
LogSuffix == "20250101_000000"

\* values generate_workflowrun_id can return: a lowercase letter followed by
\* the rest of a UUID4
WorkflowRunIds == {"q1b2c3d4-e5f6-4a7b-8c9d-0e1f2a3b4c5d"}

-----------------------------------------------------------------------------
(* Registries *)

\* backend_registry after module initialisation
backend_registry == [k \in {"google-batch"} |-> <<"GCPBatchClient", "GCPJobConfigBuilder">>]

\* plugin_registry after module initialisation
plugin_registry == [k \in {"oncoanalyser"} |-> "OncoanalyserPlugin"]

\* a registry's _registry dict: its items in insertion order
Registry_init == << >>

\* list(self._registry.keys())
registry_keys(reg) == [i \in 1..Len(reg) |-> reg[i].key]

\* key in self._registry
registered(reg, key) == \E i \in 1..Len(reg) : reg[i].key = key

\* register with the first value of a key kept
register_keeps_first(reg, key, value) ==
    IF registered(reg, key) THEN reg ELSE Append(reg, [key |-> key, value |-> value])

\* register: self._registry[key] = value; a key already present keeps its place
register(reg, key, value) ==
    IF registered(reg, key)
    THEN [i \in 1..Len(reg) |-> IF reg[i].key = key THEN [key |-> key, value |-> value]
                                 ELSE reg[i]]
    ELSE Append(reg, [key |-> key, value |-> value])

\* repr of a list of str, as an f-string prints it
RECURSIVE list_repr_items(_)
list_repr_items(ks) ==
    IF ks = << >> THEN ""
    ELSE "'" \o Head(ks) \o "'" \o (IF Len(ks) > 1 THEN ", " ELSE "") \o list_repr_items(Tail(ks))

list_repr(ks) == "[" \o list_repr_items(ks) \o "]"

\* get: the registered value, or the ValueError raised for an unknown key;
\* noun is "backend" or "plugin"
get(reg, noun, key) ==
    IF registered(reg, key)
    THEN [raised |-> None, value |-> reg[CHOOSE i \in 1..Len(reg) : reg[i].key = key].value,
          message |-> ""]
    ELSE [raised |-> "ValueError", value |-> None,
          message |-> "Unknown " \o noun \o ": '" \o key \o "'. Available " \o noun \o "s: "
                      \o list_repr(registry_keys(reg))]

\* the two module-level registries after module initialisation
ModuleRegistries ==
    [ backend |-> register(Registry_init, "google-batch", backend_registry["google-batch"]),
      plugin |-> register(Registry_init, "oncoanalyser", plugin_registry["oncoanalyser"]) ]

-----------------------------------------------------------------------------
(* Parsed command-line arguments *)

Backends == {"google-batch", "aws-batch"}

Plugins == {None, "oncoanalyser", "rnaseq"}

PipelineNames == {"nf-core/rnaseq", "/w/main.nf", "pipe", "/w/dir.nf"}

ResumeTokens == {None, "run123,sess456", "badtoken", "run123,", ",sess456", "a,b,c"}

SampleIds == {None, "T1,N1"}

PluginOptions ==
    { NoneDict,
      [k \in {"remote_sample_bucket_uri", "filetype"} |->
          IF k = "filetype" THEN ".bam" ELSE "gs://samples/bams"] }

RemoteRunPaths == {None, "other-bucket/runs/x"}

\* the namespace of a run with only the required options given
BaseArgs ==
    [ base_bucket |-> "my-bucket",
      container_image |-> "nextflow/nextflow",
      sample_id |-> None,
      dry_run |-> FALSE,
      backend |-> "google-batch",
      remote_cache_path |-> None,
      remote_run_path |-> None,
      project_id |-> "proj",
      region |-> "us-east1",
      service_account_email |-> "sa@proj.iam.gserviceaccount.com",
      network |-> "net",
      subnetwork |-> "subnet",
      spot |-> TRUE,
      labels |-> NoneDict,
      upload_max_workers |-> 0,
      cpu_milli |-> NoneInt,
      memory_mib |-> NoneInt,
      machine_type |-> None,
      pipeline_name |-> "nf-core/rnaseq",
      nextflow_version |-> "25.04.6",
      pipeline_version |-> "3.14.0",
      profile |-> None,
      params_file |-> None,
      config_file |-> None,
      executor_config_file |-> None,
      samplesheet |-> None,
      resume |-> None,
      plugin |-> None,
      plugin_options |-> NoneDict ]

\* every combination of the options the steps of a run branch on
CoreArgs ==
    { [BaseArgs EXCEPT !.dry_run = d, !.pipeline_name = p, !.plugin = g,
                       !.plugin_options = o, !.sample_id = s, !.resume = r,
                       !.params_file = f[1], !.config_file = f[2],
                       !.samplesheet = f[3], !.executor_config_file = f[4]] :
        d \in BOOLEAN, p \in PipelineNames, g \in Plugins \cap ({None} \cup DOMAIN plugin_registry),
        o \in PluginOptions, s \in SampleIds, r \in {None, "run123,sess456"},
        f \in {None, "/w/params.yaml"} \X {None, "/w/custom.config"}
              \X {None, "/w/samplesheet.csv"} \X {None, "/w/exec.config"} }

\* a name that is not registered ends the run at the lookup
UnregisteredArgs ==
    { [BaseArgs EXCEPT !.backend = b, !.plugin = g, !.dry_run = d] :
        b \in Backends, g \in Plugins, d \in BOOLEAN }

\* resume tokens of every shape, for each kind of pipeline reference
ResumeArgs ==
    { [BaseArgs EXCEPT !.resume = r, !.pipeline_name = p, !.dry_run = d] :
        r \in ResumeTokens, p \in PipelineNames, d \in BOOLEAN }

\* a run path given on the command line
RunPathArgs ==
    { [BaseArgs EXCEPT !.remote_run_path = u, !.pipeline_name = p, !.dry_run = d,
                       !.params_file = f[1], !.samplesheet = f[2]] :
        u \in RemoteRunPaths, p \in PipelineNames, d \in BOOLEAN,
        f \in {None, "/w/params.yaml"} \X {None, "/w/samplesheet.csv"} }

\* a pipeline directory whose own location has a component named .git
LocationArgs ==
    { [BaseArgs EXCEPT !.pipeline_name = "/w/.git/wf", !.dry_run = d, !.config_file = f] :
        d \in BOOLEAN, f \in {None, "/w/custom.config"} }

\* plugin options with one of the two required keys missing, and a sample
\* identifier that names no pair
PluginArgs ==
    { [BaseArgs EXCEPT !.plugin = "oncoanalyser", !.plugin_options = o, !.sample_id = s,
                       !.dry_run = d] :
        o \in { [k \in {"remote_sample_bucket_uri"} |-> "gs://samples/bams"],
                [k \in {"filetype"} |-> ".bam"],
                [k \in {"remote_sample_bucket_uri", "filetype"} |->
                    IF k = "filetype" THEN ".bam" ELSE "gs://samples/bams"] },
        s \in SampleIds \cup {"T1"}, d \in BOOLEAN }

\* explicit values for the fields that have provider defaults; the last
\* namespace also carries use_private_address, which no command-line option sets
ResourceArgs ==
    { [BaseArgs EXCEPT !.cpu_milli = r[1], !.memory_mib = r[2], !.machine_type = r[3],
                       !.remote_cache_path = r[4], !.dry_run = d] :
        r \in {NoneInt, 4000} \X {NoneInt, 8192} \X {None, "e2-standard-4"}
              \X {None, "other-bucket/cache/x"},
        d \in BOOLEAN }
    \cup { [k \in (DOMAIN BaseArgs) \cup {"use_private_address"} |->
                IF k = "use_private_address" THEN FALSE ELSE BaseArgs[k]] }

\* the values of --upload-max-workers (any int; 0 asks for the CPU count),
\* for a pipeline directory
WorkerArgs ==
    { [BaseArgs EXCEPT !.upload_max_workers = n, !.pipeline_name = "pipe", !.dry_run = d] :
        n \in {0, 8, 0 - 2}, d \in BOOLEAN }

\* the values of --labels: not given, the empty object, an object without and
\* an object with a workflowrun_id key
Labels ==
    { NoneDict, EmptyDict, [k \in {"team"} |-> "oncology"],
      [k \in {"team", "workflowrun_id"} |-> IF k = "team" THEN "oncology" ELSE "stale-run"] }

LabelArgs ==
    { [BaseArgs EXCEPT !.labels = l, !.dry_run = d] : l \in Labels, d \in BOOLEAN }

\* two file options given the same path
SharedPathArgs ==
    { [BaseArgs EXCEPT !.config_file = "/w/custom.config", !.params_file = f[1],
                       !.samplesheet = f[2], !.dry_run = d] :
        f \in {<< "/w/custom.config", None >>, << None, "/w/custom.config" >>},
        d \in BOOLEAN }

\* file options naming files of the same name in different directories
SameNameArgs ==
    { [BaseArgs EXCEPT !.config_file = f[1], !.executor_config_file = f[2],
                       !.params_file = f[3], !.samplesheet = f[4], !.dry_run = d] :
        f \in {<< "/w/custom.config", "/w/alt/custom.config", None, None >>,
               << None, None, "/w/alt/samplesheet.csv", "/w/samplesheet.csv" >>},
        d \in BOOLEAN }

\* the namespaces a run starts from
ArgsSpace ==
    CoreArgs \cup UnregisteredArgs \cup ResumeArgs \cup RunPathArgs \cup LocationArgs
    \cup LabelArgs \cup PluginArgs \cup ResourceArgs \cup WorkerArgs \cup SharedPathArgs
    \cup SameNameArgs

-----------------------------------------------------------------------------
(* Job configuration *)

\* the value of job_config before GCPJobConfigBuilder.build has run
NoConfig == [workflowrun_id |-> None]

\* the per-run temporary directory: ensure_directory(resolve_path(base_tmp) / workflowrun_id)
\* with neither NF_LAUNCH_TMPDIR nor TMPDIR set
tmp_dir_of(workflowrun_id) == resolve_path(".tmp") \o "/" \o workflowrun_id

\* job_id_of with the whole run identifier as the suffix
job_id_of_full_id(sample_id, workflowrun_id) ==
    "nf-runner-" \o lower(replace(sample_id, ",", "-")) \o "-" \o workflowrun_id

\* job_id as JobConfig.__post_init__ derives it
job_id_of(sample_id, workflowrun_id) ==
    "nf-runner-" \o lower(replace(sample_id, ",", "-")) \o "-" \o Prefix(workflowrun_id, 8)

\* JobConfig.__post_init__: the derived fields of the base configuration
JobConfig_post_init(data, workflowrun_id) ==
    LET sample_id == IF Truthy(data.sample_id) THEN data.sample_id
                     ELSE Suffix(workflowrun_id, 8)
        tmp_dir == tmp_dir_of(workflowrun_id)
        pipeline_candidate == data.pipeline_name
    IN  [ workflowrun_id |-> workflowrun_id,
          tmp_dir |-> tmp_dir,
          config_mount_path |-> "/etc/nextflow",
          sample_id |-> sample_id,
          job_id |-> job_id_of(sample_id, workflowrun_id),
          executor_config_file |->
              IF Truthy(data.executor_config_file)
              THEN resolve_path(data.executor_config_file)
              ELSE tmp_dir \o "/gcp.config",
          pipeline_name |->
              IF Path_exists(pipeline_candidate) THEN resolve_path(pipeline_candidate)
              ELSE data.pipeline_name ]

\* labels_with_run_id that keeps a workflowrun_id label the caller supplied
labels_setdefault(labels, workflowrun_id) ==
    LET given == IF labels = NoneDict \/ labels = EmptyDict THEN EmptyDict ELSE labels
    IN  IF "workflowrun_id" \in DOMAIN given THEN given
        ELSE dict_set(given, "workflowrun_id", workflowrun_id)

\* self.labels = self.labels or {}; self.labels["workflowrun_id"] = self.workflowrun_id
labels_with_run_id(labels, workflowrun_id) ==
    dict_set(IF labels = NoneDict \/ labels = EmptyDict THEN EmptyDict ELSE labels,
             "workflowrun_id", workflowrun_id)

\* or_int with the default always applied
or_int_always_default(x, d) == d

\* x or d for an int | None field
or_int(x, d) == IF x = NoneInt \/ x = 0 THEN d ELSE x

\* GCPJobConfig.__post_init__: provider defaults for unset fields
GCPJobConfig_post_init(data, workflowrun_id) ==
    [ upload_max_workers |->
          IF data.upload_max_workers # 0 THEN data.upload_max_workers ELSE CpuCount,
      remote_cache_path |->
          IF Truthy(data.remote_cache_path) THEN data.remote_cache_path
          ELSE data.base_bucket \o "/cache",
      remote_run_path |->
          IF Truthy(data.remote_run_path) THEN data.remote_run_path
          ELSE data.base_bucket \o "/run",
      labels |-> labels_with_run_id(data.labels, workflowrun_id),
      cpu_milli |-> or_int(data.cpu_milli, 2000),
      memory_mib |-> or_int(data.memory_mib, 2000),
      machine_type |-> IF Truthy(data.machine_type) THEN data.machine_type ELSE "e2-small" ]

\* record a with the fields of b added or overwritten
Override(a, b) ==
    [k \in (DOMAIN a) \cup (DOMAIN b) |-> IF k \in DOMAIN b THEN b[k] ELSE a[k]]

\* GCPJobConfigBuilder.build: the configuration constructed from the namespace
GCPJobConfigBuilder_build(a, workflowrun_id) ==
    LET data == Override(a,
                  [ plugin_options |-> IF a.plugin_options = NoneDict THEN EmptyDict
                                       ELSE a.plugin_options,
                    labels |-> IF a.labels = NoneDict THEN EmptyDict ELSE a.labels,
                    use_private_address |->
                        IF "use_private_address" \in DOMAIN a THEN a.use_private_address
                        ELSE TRUE ])
    IN  Override(Override(data, JobConfig_post_init(data, workflowrun_id)),
                 GCPJobConfig_post_init(data, workflowrun_id))

\* BackendContext as BatchClient.__init__ derives it from the configuration
BackendContext(cfg) ==
    [ tmp_dir |-> cfg.tmp_dir,
      config_mount_path |-> cfg.config_mount_path,
      workflowrun_id |-> cfg.workflowrun_id,
      job_id |-> cfg.job_id ]

NoContext == [workflowrun_id |-> None]

-----------------------------------------------------------------------------
(* NextflowCommandBuilder *)

\* " ".join(parts) and " && ".join(parts)
RECURSIVE join(_, _)
join(sep, parts) ==
    IF Len(parts) = 0 THEN ""
    ELSE IF Len(parts) = 1 THEN parts[1]
    ELSE parts[1] \o sep \o join(sep, Tail(parts))

\* whether build treats the pipeline reference as local (no -revision)
is_local_pipeline(cfg) ==
    endswith(cfg.pipeline_name, ".nf") \/ Path_is_dir(cfg.pipeline_name)

\* the base command fragments: nxf_base_cmd[0..4] are elements 1..5
nxf_base_cmd(cfg) ==
    LET executor_config_filename == Path_name(cfg.executor_config_file)
        mount == cfg.config_mount_path
    IN  << "nextflow",
           "-log " \o mount \o "/logs/nextflow.log",
           IF is_local_pipeline(cfg)
           THEN "run " \o cfg.pipeline_name
           ELSE "run " \o cfg.pipeline_name \o " -revision " \o Fmt(cfg.pipeline_version),
           "-c " \o mount \o "/config/" \o executor_config_filename,
           "-name " \o cfg.workflowrun_id >>

\* with_nf_file without the rewrite to the mounted copy
with_nf_file_original_path(cfg, cmd) == cmd

\* a pipeline name ending in .nf runs the mounted copy of the file
with_nf_file(cfg, cmd) ==
    IF endswith(cfg.pipeline_name, ".nf")
    THEN [cmd EXCEPT ![3] = "run " \o cfg.config_mount_path \o "/config/"
                              \o Path_name(cfg.pipeline_name)]
    ELSE cmd

\* with_directory without the directory change
with_directory_no_cd(cfg, cmd) ==
    IF Path_is_dir(cfg.pipeline_name) THEN [cmd EXCEPT ![3] = "run ."] ELSE cmd

\* a pipeline directory is entered first and run as "."
with_directory(cfg, cmd) ==
    IF Path_is_dir(cfg.pipeline_name)
    THEN [cmd EXCEPT ![1] = "cd " \o cfg.config_mount_path \o "/config/"
                              \o Path_name(cfg.pipeline_name) \o " && nextflow",
                     ![3] = "run ."]
    ELSE cmd

\* run_name, session_id = resume.split(",") raises ValueError unless there
\* are exactly two parts
resume_raises(cfg) == Truthy(cfg.resume) /\ Len(split(cfg.resume, ",")) # 2

\* with_resume with the clause added after the -name clause
with_resume_appended(cfg, cmd) ==
    IF Truthy(cfg.resume)
    THEN LET parts == split(cfg.resume, ",")
         IN  Append(cmd, "-name " \o parts[1] \o " -resume " \o parts[2])
    ELSE cmd

\* the resume clause replaces the last fragment (the -name clause)
with_resume(cfg, cmd) ==
    IF Truthy(cfg.resume)
    THEN LET parts == split(cfg.resume, ",")
         IN  [cmd EXCEPT ![Len(cmd)] = "-name " \o parts[1] \o " -resume " \o parts[2]]
    ELSE cmd

\* the optional -c, -params-file and -profile clauses
with_options(cfg, cmd) ==
    cmd
    \o (IF Truthy(cfg.config_file)
        THEN << "-c " \o cfg.config_mount_path \o "/config/" \o Path_name(cfg.config_file) >>
        ELSE << >>)
    \o (IF Truthy(cfg.params_file)
        THEN << "-params-file " \o cfg.config_mount_path \o "/input/"
                  \o Path_name(cfg.params_file) >>
        ELSE << >>)
    \o (IF Truthy(cfg.profile) THEN << "-profile " \o cfg.profile >> ELSE << >>)

\* the exports that precede the nextflow command
cache_cmd(cfg) ==
    "export NXF_CLOUDCACHE_PATH=gs://" \o cfg.remote_cache_path
    \o " && export NXF_IGNORE_RESUME_HISTORY=true"

\* nxf_cmd with the .nf override applied after the directory override
nxf_cmd_file_last(cfg) ==
    join(" ", with_options(cfg,
                with_resume(cfg,
                  with_nf_file(cfg,
                    with_directory(cfg, nxf_base_cmd(cfg))))))

\* the nextflow command line proper, when the resume token is well formed
nxf_cmd(cfg) ==
    join(" ", with_options(cfg,
                with_resume(cfg,
                  with_directory(cfg,
                    with_nf_file(cfg, nxf_base_cmd(cfg))))))

\* NextflowCommandBuilder.build: the command, or the error it raises
NextflowCommandBuilder_build(cfg) ==
    IF resume_raises(cfg)
    THEN [raised |-> "ValueError", value |-> ""]
    ELSE [raised |-> None, value |-> join(" && ", << cache_cmd(cfg), nxf_cmd(cfg) >>)]

-----------------------------------------------------------------------------
(* Effects.  A world w is what a call can change outside the configuration:  *)
(* the remote API calls made so far, the local files, the log and the        *)
(* exception being raised (None while none is).                              *)

Call(w, c) == [w EXCEPT !.api_calls = Append(@, c)]

Info(w, line) == [w EXCEPT !.log = Append(@, line)]

Raise(w, e) == [w EXCEPT !.error = e]

WriteFile(w, path, content) == [w EXCEPT !.files = dict_set(@, path, content)]

\* the API calls that reach a remote service (constructing a client object
\* is recorded as a call too, but sends nothing)
RemoteApis == {"list_blobs", "upload_from_filename", "upload_many_from_filenames", "create_job"}

-----------------------------------------------------------------------------
(* backends/gcp/file.py *)

\* parse_gcs_path for a URI that starts with gs:// : <<bucket_name, object_prefix>>
parse_gcs_path(gcs_uri) ==
    LET rest == SubSeq(gcs_uri, 6, Len(gcs_uri))
        pos == SepPositions(rest, "/")
    IN  IF pos = {} THEN << rest, "" >>
        ELSE << SubSeq(rest, 1, Min(pos) - 1),
                strip_slash(SubSeq(rest, Min(pos), Len(rest))) >>

\* upload_subdirectory without the input class
upload_subdirectory_config_only(cfg, local_path) == "config"

\* the subdirectory upload files a local path under
upload_subdirectory(cfg, local_path) ==
    IF local_path \in {cfg.params_file, cfg.samplesheet} THEN "input" ELSE "config"

\* the object key upload writes a local path to
destination_blob(cfg, local_path) ==
    parse_gcs_path("gs://" \o cfg.remote_run_path)[2] \o "/" \o cfg.workflowrun_id
    \o "/" \o upload_subdirectory(cfg, local_path)
    \o "/" \o Path_name(resolve_path(local_path))

\* file_path.relative_to(file_path.parent.parent): the last two components
relative_to_grandparent(p) ==
    LET parts == Path_parts(p)
    IN  IF Len(parts) < 2 THEN join("/", parts)
        ELSE parts[Len(parts) - 1] \o "/" \o parts[Len(parts)]

\* upload_transfers without the dry-run return
upload_transfers_always(cfg) == TRUE

\* whether upload goes on to transfer the file
upload_transfers(cfg) == ~cfg.dry_run

\* GCPFileUploader.upload(local_path); fails: the storage service rejects the
\* transfer.  upload_from_filename also raises (an OSError) when local_path is
\* not a readable regular file
upload(cfg, w, local_path, fails) ==
    LET raises == fails \/ resolve_path(local_path) \notin DOMAIN w.files
        bucket_name == parse_gcs_path("gs://" \o cfg.remote_run_path)[1]
        blob == destination_blob(cfg, local_path)
        shown == relative_to_grandparent(resolve_path(local_path))
        w1 == Call(w, [api |-> "storage.Client", raised |-> FALSE])
    IN  IF ~upload_transfers(cfg)
        THEN Info(w1, "[DRY-RUN] Will upload " \o shown \o " to gs://" \o bucket_name
                        \o "/" \o blob)
        ELSE LET w2 == Call(w1, [api |-> "upload_from_filename", bucket |-> bucket_name,
                                 blob |-> blob, filename |-> local_path,
                                 raised |-> raises])
             IN  IF raises
                 THEN Raise(Info(w2, "Failed to access or upload " \o shown), "OSError")
                 ELSE Info(w2, "Uploaded " \o shown \o " to gs://" \o bucket_name
                                 \o "/" \o blob)

\* whether any component of the path is an excluded directory name
has_excluded_part(path, exclude) ==
    LET parts == Path_parts(path)
    IN  \E i \in 1..Len(parts) : parts[i] \in exclude

\* iter_directory_files(root, exclude_dirs): the files rglob yields under root
\* that have no excluded component
iter_directory_files(root, exclude) ==
    SelectSeq(FsFiles, LAMBDA f : startswith(f, root \o "/") /\ ~has_excluded_part(f, exclude))

\* relative_paths(files, base)
RECURSIVE relative_paths(_, _)
relative_paths(fs, base) ==
    IF fs = << >> THEN << >>
    ELSE << SubSeq(Head(fs), Len(base) + 2, Len(Head(fs))) >> \o relative_paths(Tail(fs), base)

\* the digits of a count, as str() prints them
Digits == << "0", "1", "2", "3", "4", "5", "6", "7", "8", "9" >>

\* str(n) for 0 <= n
RECURSIVE int_str(_)
int_str(n) == IF n < 10 THEN Digits[n + 1] ELSE int_str(n \div 10) \o Digits[(n % 10) + 1]

\* first_failed taking the last failure instead
first_failed_last(string_paths, failed) == Max(failed \cap (1..Len(string_paths)))

\* the loop over zip(string_paths, results): the index of the first result
\* that is an exception, which is the one raised
first_failed(string_paths, failed) == Min(failed \cap (1..Len(string_paths)))

\* whether upload_directory goes on to hand the files to the transfer manager
upload_directory_transfers(cfg) == ~cfg.dry_run

\* GCPFileUploader.upload_directory(directory_path, max_workers); failed: the
\* indices of the files whose transfer the manager reports as an exception
upload_directory(cfg, w, directory_path, max_workers, failed) ==
    LET dir == resolve_path(directory_path)
        string_paths == relative_paths(iter_directory_files(dir, {".git"}), dir)
        parsed == parse_gcs_path("gs://" \o cfg.remote_run_path)
        blob_name_prefix == parsed[2] \o "/" \o cfg.workflowrun_id \o "/config/"
                            \o Path_name(dir) \o "/"
    IN  IF ~Path_is_dir(dir) THEN Raise(w, "FileNotFoundError")
        ELSE IF ~upload_directory_transfers(cfg)
        THEN Info(Info(Call(w, [api |-> "storage.Client", raised |-> FALSE]),
                    "[DRY-RUN] Found " \o int_str(Len(string_paths)) \o " files in "
                      \o dir \o " ready to upload"),
                  "[DRY-RUN] Will upload " \o dir \o " to gs://" \o parsed[1] \o "/"
                    \o blob_name_prefix)
        ELSE LET w1 == Call(Call(w, [api |-> "storage.Client", raised |-> FALSE]),
                            [api |-> "upload_many_from_filenames", bucket |-> parsed[1],
                             blob_name_prefix |-> blob_name_prefix,
                             filenames |-> string_paths, source_directory |-> dir,
                             max_workers |-> max_workers,
                             raised |-> \E i \in 1..Len(string_paths) : i \in failed,
                             results |-> [i \in 1..Len(string_paths) |-> i \notin failed]])
             IN  IF \E i \in 1..Len(string_paths) : i \in failed
                 THEN Raise(Info(w1, "Failed to upload "
                                       \o string_paths[first_failed(string_paths, failed)]),
                            "GoogleAPIError")
                 ELSE Info(w1, "Uploaded " \o dir \o " to gs://" \o parsed[1] \o "/"
                                 \o blob_name_prefix)

\* the text GCPExecutorConfigBuilder.build renders: the template
\* substitutions; the labels are the set of rendered "k": "v" items
executor_config_text(cfg) ==
    LET labels == dict_set(cfg.labels, "workflowrun_id", cfg.workflowrun_id)
    IN  [ kind |-> "executor_config",
          base_bucket |-> cfg.base_bucket,
          remote_run_path |-> cfg.remote_run_path,
          workflowrun_id |-> cfg.workflowrun_id,
          log_suffix |-> LogSuffix,
          project_id |-> cfg.project_id,
          region |-> cfg.region,
          use_private_address |-> cfg.use_private_address,
          spot |-> cfg.spot,
          network |-> IF Truthy(cfg.network) THEN cfg.network ELSE "",
          subnetwork |-> IF Truthy(cfg.subnetwork) THEN cfg.subnetwork ELSE "",
          service_account_email |-> cfg.service_account_email,
          resource_labels |-> {"\"" \o k \o "\": \"" \o labels[k] \o "\"" : k \in DOMAIN labels} ]

\* GCPExecutorConfigBuilder.build; fails: open(gcp_config_file, "w") raises
GCPExecutorConfigBuilder_build(cfg, w, fails) ==
    LET gcp_config_file == cfg.executor_config_file
        w1 == WriteFile(w, gcp_config_file, executor_config_text(cfg))
    IN  IF fails THEN Raise(w, "OSError")
        ELSE IF cfg.dry_run
        THEN Info(w1, "[DRY-RUN] Will write executor config file " \o gcp_config_file)
        ELSE Info(w1, "GCP Batch executor config written to: " \o gcp_config_file)

-----------------------------------------------------------------------------
(* Object storage as the plugin sees it *)

\* the objects list_blobs can return, in listing order; updated is the
\* object's modification time
Blobs ==
    << [bucket |-> "samples", name |-> "bams/T1.bam", updated |-> 1],
       [bucket |-> "samples", name |-> "bams/T1.rerun.bam", updated |-> 3],
       [bucket |-> "samples", name |-> "bams/T1.rerun.bam.bai", updated |-> 4],
       [bucket |-> "samples", name |-> "bams/N1.bam", updated |-> 2],
       [bucket |-> "samples", name |-> "bams/N1.copy.bam", updated |-> 2],
       [bucket |-> "samples", name |-> "other/N1.bam", updated |-> 5] >>

\* bucket.list_blobs(prefix=bucket_prefix)
list_blobs(bucket_name, bucket_prefix) ==
    SelectSeq(Blobs, LAMBDA b : b.bucket = bucket_name /\ startswith(b.name, bucket_prefix))

\* the loop of get_latest_file over the listed blobs: acc is
\* <<latest_bam, latest_time>>, None and 0 - 1 before any match
RECURSIVE latest_of(_, _, _, _)
latest_of(blobs, filename_prefix, filename_extension, acc) ==
    IF blobs = << >> THEN acc
    ELSE LET blob == Head(blobs)
             basename == Path_name(blob.name)
             matches == /\ endswith(blob.name, filename_extension)
                        /\ (filename_prefix = None \/ startswith(basename, filename_prefix))
             newer == acc[1] = None \/ blob.updated > acc[2]
         IN  latest_of(Tail(blobs), filename_prefix, filename_extension,
                       IF matches /\ newer THEN << blob.name, blob.updated >> ELSE acc)

\* get_latest_file with the filename prefix not applied
get_latest_file_ignores_prefix(bucket_name, bucket_prefix, filename_prefix, filename_extension) ==
    LET latest_bam == latest_of(list_blobs(bucket_name, bucket_prefix), None,
                                filename_extension, << None, 0 - 1 >>)[1]
    IN  IF Truthy(latest_bam) THEN "gs://" \o bucket_name \o "/" \o latest_bam ELSE ""

\* get_latest_file: the gs:// URI of the latest match, or the empty string
get_latest_file(bucket_name, bucket_prefix, filename_prefix, filename_extension) ==
    LET latest_bam == latest_of(list_blobs(bucket_name, bucket_prefix), filename_prefix,
                                filename_extension, << None, 0 - 1 >>)[1]
    IN  IF Truthy(latest_bam) THEN "gs://" \o bucket_name \o "/" \o latest_bam ELSE ""

\* str.strip() for the blanks around a sample identifier
RECURSIVE strip(_)
strip(s) ==
    IF s = "" THEN ""
    ELSE IF CharAt(s, 1) = " " THEN strip(SubSeq(s, 2, Len(s)))
    ELSE IF CharAt(s, Len(s)) = " " THEN strip(SubSeq(s, 1, Len(s) - 1))
    ELSE s

-----------------------------------------------------------------------------
(* plugins/oncoanalyser/oncoanalyser.py *)

\* the rows OncoanalyserPlugin writes to samplesheet.csv
samplesheet_rows(tumor_id, normal_id, tumor_bam, normal_bam) ==
    [ kind |-> "samplesheet",
      rows |-> << << tumor_id, "tumor", "bam", tumor_bam >>,
                  << tumor_id, "tumor", "bai", tumor_bam \o ".bai" >>,
                  << normal_id, "normal", "bam", normal_bam >>,
                  << normal_id, "normal", "bai", normal_bam \o ".bai" >> >>,
      group_id |-> tumor_id \o "_" \o normal_id ]

\* set_samplesheet that also renames the job after the sample pair
set_samplesheet_renames_job(cfg, tmp_csv) ==
    [cfg EXCEPT !.samplesheet = tmp_csv, !.job_id = "nf-runner-" \o lower(cfg.sample_id)]

\* job_config.samplesheet = str(tmp_csv): the plugin's one assignment to the
\* configuration
set_samplesheet(cfg, tmp_csv) == [cfg EXCEPT !.samplesheet = tmp_csv]

\* plugin_validation_error without the filetype check
plugin_validation_error_no_filetype(cfg) ==
    IF dict_get(cfg.plugin_options, "remote_sample_bucket_uri") = None THEN "ValueError"
    ELSE IF ~Truthy(cfg.sample_id) \/ ~Contains(cfg.sample_id, ",") THEN "ValueError"
    ELSE None

\* the checks of _build_samplesheet on the plugin options and the sample
\* identifier: the error raised, None when they pass
plugin_validation_error(cfg) ==
    IF dict_get(cfg.plugin_options, "remote_sample_bucket_uri") = None THEN "ValueError"
    ELSE IF dict_get(cfg.plugin_options, "filetype") = None THEN "ValueError"
    ELSE IF ~Truthy(cfg.sample_id) \/ ~Contains(cfg.sample_id, ",") THEN "ValueError"
    ELSE None

\* OncoanalyserPlugin.load: <<configuration, world>> afterwards; list_fails is
\* the number (1 or 2) of the object listing that raises, 0 for none
OncoanalyserPlugin_load(cfg, w, list_fails) ==
    LET tmp_csv == cfg.tmp_dir \o "/samplesheet.csv"
        cfg1 == set_samplesheet(cfg, tmp_csv)
        w1 == IF cfg.dry_run
              THEN Info(w, "[DRY-RUN] samplesheet will be written to: " \o tmp_csv)
              ELSE w
        bucket_uri == dict_get(cfg.plugin_options, "remote_sample_bucket_uri")
        filename_extension == dict_get(cfg.plugin_options, "filetype")
        sample_id == cfg.sample_id
    IN  IF plugin_validation_error(cfg) # None
        THEN << cfg1, Raise(w1, plugin_validation_error(cfg)) >>
        ELSE IF ~startswith(bucket_uri, "gs://") THEN << cfg1, Raise(w1, "ValueError") >>
        ELSE
        LET parsed == parse_gcs_path(bucket_uri)
            comma == Min(SepPositions(sample_id, ","))
            tumor_id == strip(SubSeq(sample_id, 1, comma - 1))
            normal_id == strip(SubSeq(sample_id, comma + 1, Len(sample_id)))
            lookup(prefix, n) ==
                << [api |-> "storage.Client", raised |-> FALSE],
                   [api |-> "list_blobs", bucket |-> parsed[1], prefix |-> parsed[2],
                    filename_prefix |-> prefix, raised |-> list_fails = n] >>
            w2 == [w1 EXCEPT !.api_calls = @ \o lookup(tumor_id, 1)]
            w3 == [w2 EXCEPT !.api_calls = @ \o lookup(normal_id, 2)]
            tumor_bam == get_latest_file(parsed[1], parsed[2], tumor_id, filename_extension)
            normal_bam == get_latest_file(parsed[1], parsed[2], normal_id, filename_extension)
        IN  IF list_fails = 1 THEN << cfg1, Raise(w2, "GoogleAPIError") >>
            ELSE IF list_fails = 2 THEN << cfg1, Raise(w3, "GoogleAPIError") >>
            ELSE << cfg1,
                    Info(WriteFile(w3, tmp_csv,
                                   samplesheet_rows(tumor_id, normal_id, tumor_bam, normal_bam)),
                         "Samplesheet written to " \o tmp_csv) >>

-----------------------------------------------------------------------------
(* backends/gcp/batch.py *)

\* staged_files with the executor config uploaded first
staged_files_executor_first(cfg) ==
    SelectSeq(<< cfg.executor_config_file, cfg.config_file, cfg.params_file, cfg.samplesheet >>,
              Truthy)
    \o (IF endswith(cfg.pipeline_name, ".nf") THEN << cfg.pipeline_name >> ELSE << >>)

\* the files stage_resources uploads one by one, in order
staged_files(cfg) ==
    SelectSeq(<< cfg.config_file, cfg.params_file, cfg.samplesheet, cfg.executor_config_file >>,
              Truthy)
    \o (IF endswith(cfg.pipeline_name, ".nf") THEN << cfg.pipeline_name >> ELSE << >>)

\* the for loop over the files: the fail_at-th upload (0: none) raises and
\* ends the loop
RECURSIVE upload_each(_, _, _, _)
upload_each(cfg, w, paths, fail_at) ==
    IF paths = << >> \/ w.error # None THEN w
    ELSE upload_each(cfg, upload(cfg, w, Head(paths), fail_at = 1), Tail(paths), fail_at - 1)

\* the failures the filesystem and the storage service can produce during
\* stage_resources: none, the write of the executor config, the at-th
\* single-file upload, or the transfers of the files numbered in failed
StageFaults(cfg) ==
    LET n == Len(iter_directory_files(resolve_path(cfg.pipeline_name), {".git"}))
    IN  {[kind |-> "none", at |-> 0, failed |-> {}],
         [kind |-> "write", at |-> 0, failed |-> {}]}
        \cup {[kind |-> "upload", at |-> k, failed |-> {}] : k \in 1..Len(staged_files(cfg))}
        \cup {[kind |-> "transfer", at |-> 0, failed |-> S] : S \in (SUBSET (1..n)) \ {{}}}

\* GCPBatchClient.stage_resources under a fault of StageFaults
stage_resources(cfg, w, fault) ==
    LET w1 == GCPExecutorConfigBuilder_build(cfg, w, fault.kind = "write")
        w2 == IF w1.error # None THEN w1
              ELSE upload_each(cfg, w1, staged_files(cfg), fault.at)
    IN  IF w2.error # None THEN w2
        ELSE IF Path_is_dir(cfg.pipeline_name)
        THEN upload_directory(cfg, w2, resolve_path(cfg.pipeline_name),
                              cfg.upload_max_workers, fault.failed)
        ELSE w2

\* the CreateJobRequest launch_job assembles around the command
CreateJobRequest(cfg, ctx, command) ==
    [ kind |-> "request",
      job_id |-> cfg.job_id,
      parent |-> "projects/" \o cfg.project_id \o "/locations/" \o cfg.region,
      remote_path |-> cfg.remote_run_path \o "/" \o cfg.workflowrun_id,
      mount_path |-> ctx.config_mount_path,
      image_uri |-> IF Contains(cfg.container_image, ":") THEN cfg.container_image
                    ELSE cfg.container_image \o ":" \o cfg.nextflow_version,
      entrypoint |-> "/bin/bash",
      commands |-> << "-c", command >>,
      cpu_milli |-> cfg.cpu_milli,
      memory_mib |-> cfg.memory_mib,
      machine_type |-> cfg.machine_type,
      provisioning_model |-> IF cfg.spot THEN "SPOT" ELSE "STANDARD",
      no_external_ip_address |-> cfg.use_private_address,
      network |-> IF Truthy(cfg.network) THEN cfg.network ELSE "",
      subnetwork |-> IF Truthy(cfg.subnetwork) THEN cfg.subnetwork ELSE "",
      service_account |-> cfg.service_account_email,
      logs_policy |-> "CLOUD_LOGGING",
      labels |-> cfg.labels ]

NoRequest == [kind |-> None]

\* launch_submits without the dry-run return
launch_submits_always(cfg) == TRUE

\* whether launch_job goes on to submit the request
launch_submits(cfg) == ~cfg.dry_run

\* GCPBatchClient.launch_job: <<request, world>> afterwards; submit_fails:
\* create_job raises
launch_job(cfg, ctx, w, submit_fails) ==
    LET built == NextflowCommandBuilder_build(cfg)
        request == CreateJobRequest(cfg, ctx, built.value)
        job_request_file == ctx.tmp_dir \o "/job_request.txt"
    IN  IF built.raised # None THEN << NoRequest, Raise(w, built.raised) >>
        ELSE IF ~launch_submits(cfg)
        THEN << request,
                Info(WriteFile(w, job_request_file, request),
                     "[DRY-RUN] Will submit the following job request: " \o job_request_file) >>
        ELSE LET w1 == Call(Call(w, [api |-> "BatchServiceClient", raised |-> FALSE]),
                            [api |-> "create_job", job_id |-> request.job_id,
                             raised |-> submit_fails])
             IN  IF submit_fails THEN << request, Raise(w1, "GoogleAPIError") >>
                 ELSE << request,
                         Info(WriteFile(w1, job_request_file,
                                        [kind |-> "response", job |-> request]),
                              "Job request submitted: " \o job_request_file) >>

\* cancel_job that asks the service to delete the job and returns
cancel_job_deletes(cfg, w) == Call(w, [api |-> "delete_job", job_id |-> cfg.job_id, raised |-> FALSE])

\* GCPBatchClient.cancel_job: raises NotImplementedError
cancel_job(cfg, w) == Raise(w, "NotImplementedError")

-----------------------------------------------------------------------------
(* launcher/nextflow.py: NextflowLauncher.run, one action per step *)

World == [api_calls |-> api_calls, files |-> files, log |-> log, error |-> error]

\* after_step with the exception swallowed
after_step_swallowed(w, next) == next

\* where run continues after a step: an exception leaves run
after_step(w, next) == IF w.error # None THEN "failed" ELSE next

\* after_construct with the plugin step left out
after_construct_no_plugin(a) == "stage"

\* the step that follows the construction of the batch client
after_construct(a) == IF Truthy(a.plugin) THEN "plugin" ELSE "stage"

Step(name, w) == [step |-> name, outcome |-> IF w.error # None THEN "raised" ELSE "returned"]

Init ==
    /\ args \in ArgsSpace
    /\ job_config = NoConfig
    /\ context = NoContext
    /\ pc = "start"
    /\ error = None
    /\ trace = << >>
    /\ api_calls = << >>
    /\ files = [i \in {FsFiles[j] : j \in 1..Len(FsFiles)} |-> [kind |-> "user", path |-> i]]
    /\ log = << >>
    /\ job_request = NoRequest
    /\ registries = ModuleRegistries
    /\ calls = << >>

\* backend_registry.get raises for an unknown backend
BackendUnknown ==
    /\ pc = "start"
    /\ get(registries.backend, "backend", args.backend).raised # None
    /\ error' = "ValueError"
    /\ pc' = "failed"
    /\ UNCHANGED << args, job_config, context, trace, api_calls, files, log, job_request,
                    registries, calls >>

\* lines 31-40: build the configuration, dump it, construct the batch client
Construct ==
    /\ pc = "start"
    /\ get(registries.backend, "backend", args.backend).raised = None
    /\ \E workflowrun_id \in WorkflowRunIds :
          LET cfg == GCPJobConfigBuilder_build(args, workflowrun_id)
              job_config_file == cfg.tmp_dir \o "/job_config.json"
              w == Info(WriteFile(World, job_config_file,
                                  [kind |-> "job_config", fields |-> cfg]),
                        "Job config loaded from args: " \o job_config_file)
          IN  /\ job_config' = cfg
              /\ context' = BackendContext(cfg)
              /\ files' = w.files
              /\ log' = w.log
              /\ trace' = Append(trace, Step("JobConfigBuilder.build", w))
    /\ pc' = after_construct(args)
    /\ UNCHANGED << args, error, api_calls, job_request, registries, calls >>

\* plugin_registry.get raises for an unknown plugin
PluginUnknown ==
    /\ pc = "plugin"
    /\ get(registries.plugin, "plugin", args.plugin).raised # None
    /\ error' = "ValueError"
    /\ pc' = "failed"
    /\ UNCHANGED << args, job_config, context, trace, api_calls, files, log, job_request,
                    registries, calls >>

\* lines 42-45: plugin.load()
PluginLoad ==
    /\ pc = "plugin"
    /\ get(registries.plugin, "plugin", args.plugin).raised = None
    /\ \E list_fails \in 0..2 :
          LET r == OncoanalyserPlugin_load(job_config, World, list_fails)
          IN  /\ job_config' = r[1]
              /\ api_calls' = r[2].api_calls
              /\ files' = r[2].files
              /\ log' = r[2].log
              /\ error' = r[2].error
              /\ trace' = Append(trace, Step("plugin.load", r[2]))
              /\ pc' = after_step(r[2], "stage")
    /\ UNCHANGED << args, context, job_request, registries, calls >>

\* line 47: batch_client.stage_resources()
StageResources ==
    /\ pc = "stage"
    /\ \E fault \in StageFaults(job_config) :
          LET w == stage_resources(job_config, World, fault)
          IN  /\ api_calls' = w.api_calls
              /\ files' = w.files
              /\ log' = w.log
              /\ error' = w.error
              /\ trace' = Append(trace, Step("stage_resources", w))
              /\ pc' = after_step(w, "launch")
    /\ UNCHANGED << args, job_config, context, job_request, registries, calls >>

\* line 48: batch_client.launch_job()
LaunchJob ==
    /\ pc = "launch"
    /\ \E submit_fails \in BOOLEAN :
          LET r == launch_job(job_config, context, World, submit_fails)
          IN  /\ job_request' = r[1]
              /\ api_calls' = r[2].api_calls
              /\ files' = r[2].files
              /\ log' = r[2].log
              /\ error' = r[2].error
              /\ trace' = Append(trace, Step("launch_job", r[2]))
              /\ pc' = after_step(r[2], "done")
    /\ UNCHANGED << args, job_config, context, registries, calls >>

Next ==
    \/ BackendUnknown
    \/ Construct
    \/ PluginUnknown
    \/ PluginLoad
    \/ StageResources
    \/ LaunchJob

Spec == Init /\ [][Next]_vars

-----------------------------------------------------------------------------
(* backends/gcp/batch.py: cancel_job called on the constructed client *)

\* the number of cancel_job calls followed
MaxCancelCalls == 1

\* batch_client.cancel_job(), at any point once the client is constructed; its
\* exception goes to the caller of cancel_job, not to run
CancelJob ==
    /\ job_config.workflowrun_id # None
    /\ Len(calls) < MaxCancelCalls
    /\ LET w == cancel_job(job_config, [World EXCEPT !.error = None])
       IN  /\ calls' = Append(calls, [op |-> "cancel_job", at |-> pc, raised |-> w.error])
           /\ api_calls' = w.api_calls
           /\ files' = w.files
           /\ log' = w.log
    /\ UNCHANGED << args, job_config, context, pc, error, trace, job_request, registries >>

NextClient ==
    \/ Next
    \/ CancelJob

SpecClient == Init /\ [][NextClient]_vars

-----------------------------------------------------------------------------
(* utils/registry.py: the registries called directly, before any run *)

\* the number of register and get calls followed
MaxCalls == 3

\* the class pairs a backend key is registered with
BackendValues ==
    { << "GCPBatchClient", "GCPJobConfigBuilder" >>, << "AWSBatchClient", "AWSJobConfigBuilder" >> }

\* the classes a plugin key is registered with
PluginValues == {"OncoanalyserPlugin", "RnaseqPlugin"}

\* the keys looked up: those that can be registered and one that never is
BackendLookups == Backends \cup {"azure-batch"}

PluginLookups == (Plugins \ {None}) \cup {"sarek"}

\* the launcher is not running while the registries are exercised
InitRegistry == Init /\ args = BaseArgs

\* backend_registry.register(key, batch_client_cls, job_config_builder_cls)
RegisterBackend ==
    /\ pc = "start"
    /\ Len(calls) < MaxCalls
    /\ \E key \in Backends, value \in BackendValues :
          /\ registries' = [registries EXCEPT !.backend = register(@, key, value)]
          /\ calls' = Append(calls, [op |-> "register", registry |-> "backend",
                                     key |-> key, value |-> value])
    /\ UNCHANGED << args, job_config, context, pc, error, trace, api_calls, files, log,
                    job_request >>

\* backend_registry.get(key)
GetBackend ==
    /\ pc = "start"
    /\ Len(calls) < MaxCalls
    /\ \E key \in BackendLookups :
          calls' = Append(calls, [op |-> "get", registry |-> "backend", key |-> key,
                                  result |-> get(registries.backend, "backend", key)])
    /\ UNCHANGED << args, job_config, context, pc, error, trace, api_calls, files, log,
                    job_request, registries >>

\* plugin_registry.register(key, cls)
RegisterPlugin ==
    /\ pc = "start"
    /\ Len(calls) < MaxCalls
    /\ \E key \in Plugins \ {None}, value \in PluginValues :
          /\ registries' = [registries EXCEPT !.plugin = register(@, key, value)]
          /\ calls' = Append(calls, [op |-> "register", registry |-> "plugin",
                                     key |-> key, value |-> value])
    /\ UNCHANGED << args, job_config, context, pc, error, trace, api_calls, files, log,
                    job_request >>

\* plugin_registry.get(key)
GetPlugin ==
    /\ pc = "start"
    /\ Len(calls) < MaxCalls
    /\ \E key \in PluginLookups :
          calls' = Append(calls, [op |-> "get", registry |-> "plugin", key |-> key,
                                  result |-> get(registries.plugin, "plugin", key)])
    /\ UNCHANGED << args, job_config, context, pc, error, trace, api_calls, files, log,
                    job_request, registries >>

NextRegistry ==
    \/ RegisterBackend
    \/ GetBackend
    \/ RegisterPlugin
    \/ GetPlugin

SpecRegistry == InitRegistry /\ [][NextRegistry]_vars

-----------------------------------------------------------------------------
(* backends/gcp/file.py: get_latest_file called directly *)

\* the number of get_latest_file calls followed
MaxLookups == 1

BucketNames == {"samples", "archive"}

BucketPrefixes == {"", "bams", "bams/T1", "other", "none"}

FilenamePrefixes == {None, "", "T1", "N1", "X9"}

FilenameExtensions == {".bam", ".bai", ".cram"}

\* get_latest_file(bucket_name, bucket_prefix, filename_prefix, filename_extension)
GetLatestFile ==
    /\ pc = "start"
    /\ Len(calls) < MaxLookups
    /\ \E bucket_name \in BucketNames, bucket_prefix \in BucketPrefixes,
          filename_prefix \in FilenamePrefixes, filename_extension \in FilenameExtensions :
          /\ calls' = Append(calls,
                 [op |-> "get_latest_file", bucket_name |-> bucket_name,
                  bucket_prefix |-> bucket_prefix, filename_prefix |-> filename_prefix,
                  filename_extension |-> filename_extension,
                  result |-> get_latest_file(bucket_name, bucket_prefix, filename_prefix,
                                             filename_extension)])
          /\ api_calls' = api_calls
                 \o << [api |-> "storage.Client", raised |-> FALSE],
                       [api |-> "list_blobs", bucket |-> bucket_name, prefix |-> bucket_prefix,
                        raised |-> FALSE] >>
    /\ UNCHANGED << args, job_config, context, pc, error, trace, files, log, job_request,
                    registries >>

NextLookup == GetLatestFile

SpecLookup == InitRegistry /\ [][NextLookup]_vars

-----------------------------------------------------------------------------
(* Properties *)

\* the indices of the recorded calls to the given APIs
CallsTo(apis) == {i \in 1..Len(api_calls) : api_calls[i].api \in apis}

Stepped(name) == \E i \in 1..Len(trace) : trace[i].step = name

Returned(name) == \E i \in 1..Len(trace) : trace[i] = [step |-> name, outcome |-> "returned"]

StepRaised(name) == \E i \in 1..Len(trace) : trace[i] = [step |-> name, outcome |-> "raised"]

Configured == job_config.workflowrun_id # None

Logged(line) == \E i \in 1..Len(log) : log[i] = line

\* the command of the job request launch_job has built
Cmd == job_request.commands[2]

\* remote_run_path without its bucket component
RunPrefix ==
    LET rp == job_config.remote_run_path
    IN  IF SepPositions(rp, "/") = {} THEN ""
        ELSE SubSeq(rp, Min(SepPositions(rp, "/")) + 1, Len(rp))

\* the bucket component of remote_run_path
RunBucket ==
    LET rp == job_config.remote_run_path
    IN  IF SepPositions(rp, "/") = {} THEN rp ELSE SubSeq(rp, 1, Min(SepPositions(rp, "/")) - 1)

\* the object key the file uploader is to use for local path p
ExpectedKey(p) ==
    RunPrefix \o "/" \o job_config.workflowrun_id
    \o (IF p = job_config.params_file \/ p = job_config.samplesheet THEN "/input/" ELSE "/config/")
    \o Path_name(p)

\* C1: with dry_run set, launch_job never constructs a batch service client
\* and never calls create_job; it writes the serialized job request to
\* <tmp_dir>/job_request.txt and returns (it raises, before writing, only when
\* the command builder rejects the resume token)
C1_DryRunLaunchSubmitsNothing ==
    args.dry_run =>
        /\ CallsTo({"BatchServiceClient", "create_job"}) = {}
        /\ Returned("launch_job") =>
              /\ job_request.kind = "request"
              /\ (job_config.tmp_dir \o "/job_request.txt") \in DOMAIN files
              /\ files[job_config.tmp_dir \o "/job_request.txt"] = job_request
        /\ StepRaised("launch_job") =>
              /\ Truthy(job_config.resume)
              /\ Len(split(job_config.resume, ",")) # 2
              /\ (job_config.tmp_dir \o "/job_request.txt") \notin DOMAIN files

C1_Witness == args.dry_run /\ Returned("launch_job") /\ job_request.kind = "request"

\* C2: during a run with dry_run set no remote API call (object listing,
\* object upload, job submission) is made on any path, a named plugin included
C2_DryRunMakesNoRemoteCall == args.dry_run => CallsTo(RemoteApis) = {}

\* C3: with dry_run set, upload never calls upload_from_filename and
\* upload_directory never calls the transfer manager; each logs the intended
\* destination and, for a directory, the number of files found
C3_DryRunUploadsOnlyLog ==
    args.dry_run =>
        /\ CallsTo({"upload_from_filename", "upload_many_from_filenames"}) = {}
        /\ Returned("stage_resources") =>
              /\ \A i \in 1..Len(staged_files(job_config)) :
                    \E j \in 1..Len(log) :
                        /\ startswith(log[j], "[DRY-RUN] Will upload ")
                        /\ endswith(log[j], Path_name(staged_files(job_config)[i]) \o " to gs://"
                                      \o RunBucket \o "/" \o ExpectedKey(staged_files(job_config)[i]))
              /\ Path_is_dir(job_config.pipeline_name) =>
                    LET dir == job_config.pipeline_name
                        n == Cardinality({i \in 1..Len(FsFiles) :
                                            /\ startswith(FsFiles[i], dir \o "/")
                                            /\ ~Contains(FsFiles[i], "/.git/")})
                    IN  /\ Logged("[DRY-RUN] Found " \o int_str(n) \o " files in " \o dir
                                    \o " ready to upload")
                        /\ Logged("[DRY-RUN] Will upload " \o dir \o " to gs://" \o RunBucket
                                    \o "/" \o RunPrefix \o "/" \o job_config.workflowrun_id
                                    \o "/config/" \o Path_name(dir) \o "/")

C3_Witness ==
    /\ args.dry_run
    /\ Returned("stage_resources")
    /\ Path_is_dir(job_config.pipeline_name)
    /\ Len(staged_files(job_config)) >= 4

\* C4: with dry_run set, GCPExecutorConfigBuilder.build writes no file: the
\* path recorded as executor_config_file is neither created nor modified
C4_DryRunWritesNoExecutorConfig ==
    (args.dry_run /\ Configured) =>
        LET path == job_config.executor_config_file
        IN  path \in DOMAIN files => files[path] = [kind |-> "user", path |-> path]

\* C5: the steps of run occur in the order configuration construction, then
\* plugin.load only if a plugin is named, then stage_resources, then
\* launch_job; each runs at most once, and each only after the step before it
\* has returned
C5_StepOrder ==
    LET expected == << "JobConfigBuilder.build" >>
                    \o (IF Truthy(args.plugin) THEN << "plugin.load" >> ELSE << >>)
                    \o << "stage_resources", "launch_job" >>
    IN  /\ Len(trace) <= Len(expected)
        /\ \A i \in 1..Len(trace) :
              /\ trace[i].step = expected[i]
              /\ i < Len(trace) => trace[i].outcome = "returned"

C5_Witness == pc = "done" /\ Truthy(args.plugin) /\ Len(trace) = 4

\* C6: an error raised by a registry lookup, plugin.load, the executor-config
\* build or an upload leaves run; no later step runs (no upload and no
\* submission after a plugin failure, no submission after a staging failure)
\* and no file is uploaded after the first failed upload
C6_ErrorsPropagate ==
    /\ error # None => pc = "failed"
    /\ pc = "failed" => error # None
    /\ \A i \in 1..Len(trace) : trace[i].outcome = "raised" => (i = Len(trace) /\ error # None)
    /\ \A i \in 1..Len(api_calls) : api_calls[i].raised => (i = Len(api_calls) /\ error # None)
    /\ error # None =>
          /\ ~Returned("JobConfigBuilder.build") => (trace = << >> /\ api_calls = << >>)
          /\ (Truthy(args.plugin) /\ ~Returned("plugin.load")) =>
                /\ ~Stepped("stage_resources")
                /\ CallsTo({"upload_from_filename", "upload_many_from_filenames",
                            "create_job"}) = {}
          /\ ~Returned("stage_resources") =>
                (~Stepped("launch_job") /\ CallsTo({"BatchServiceClient", "create_job"}) = {})

C6_Witness ==
    /\ StepRaised("stage_resources")
    /\ Len(api_calls) >= 4
    /\ api_calls[Len(api_calls)].api = "upload_from_filename"
    /\ api_calls[Len(api_calls)].raised
    /\ api_calls[Len(api_calls) - 2].api = "upload_from_filename"

\* C7: upload(p) targets <prefix>/<workflowrun_id>/input/<basename(p)> when p
\* is the params file or the samplesheet and
\* <prefix>/<workflowrun_id>/config/<basename(p)> for every other path, where
\* <prefix> is remote_run_path without its bucket component
C7_UploadKey ==
    \A i \in CallsTo({"upload_from_filename"}) :
        /\ api_calls[i].bucket = RunBucket
        /\ api_calls[i].blob = ExpectedKey(api_calls[i].filename)

C7_Witness ==
    /\ \E i \in CallsTo({"upload_from_filename"}) :
          api_calls[i].filename = job_config.samplesheet /\ Contains(api_calls[i].blob, "/input/")
    /\ \E i \in CallsTo({"upload_from_filename"}) :
          api_calls[i].filename = job_config.config_file /\ Contains(api_calls[i].blob, "/config/")
    /\ \E i \in CallsTo({"upload_from_filename"}) :
          api_calls[i].filename = job_config.pipeline_name

\* C8: the command has a -revision <pipeline_version> clause if and only if
\* the pipeline reference neither ends in .nf nor is an existing directory;
\* for a local .nf file it has no -revision clause and runs
\* <mount>/config/<basename> instead of the original path
C8_RevisionOnlyForRemote ==
    job_request.kind = "request" =>
        LET name == job_config.pipeline_name
            remote == ~endswith(name, ".nf") /\ ~Path_is_dir(name)
        IN  /\ Contains(Cmd, "-revision") <=> remote
            /\ remote => Contains(Cmd, " run " \o name \o " -revision "
                                         \o Fmt(job_config.pipeline_version) \o " ")
            /\ (endswith(name, ".nf") /\ ~Path_is_dir(name)) =>
                  /\ Contains(Cmd, " run " \o job_config.config_mount_path \o "/config/"
                                     \o Path_name(name) \o " ")
                  /\ ~Contains(Cmd, "run " \o name)

C8_Witness ==
    /\ job_request.kind = "request"
    /\ endswith(job_config.pipeline_name, ".nf")
    /\ ~Path_is_dir(job_config.pipeline_name)

\* C9 as stated: for an existing local directory the string build returns
\* begins with the directory change into <mount>/config/<directory-basename>
\* and contains "run ."
C9_BeginsWithDirectoryChange ==
    (job_request.kind = "request" /\ Path_is_dir(job_config.pipeline_name)) =>
        /\ startswith(Cmd, "cd " \o job_config.config_mount_path \o "/config/"
                             \o Path_name(job_config.pipeline_name))
        /\ Contains(Cmd, "run .")

\* C9 as amended: for an existing local directory the string build returns
\* begins with the two exports, followed at once by the directory change into
\* <mount>/config/<directory-basename> chained before nextflow, and contains
\* "run ."
C9_DirectoryChangeAfterExports ==
    (job_request.kind = "request" /\ Path_is_dir(job_config.pipeline_name)) =>
        /\ startswith(Cmd, "export NXF_CLOUDCACHE_PATH=gs://" \o job_config.remote_cache_path
                             \o " && export NXF_IGNORE_RESUME_HISTORY=true && cd "
                             \o job_config.config_mount_path \o "/config/"
                             \o Path_name(job_config.pipeline_name) \o " && nextflow -log ")
        /\ Contains(Cmd, " run . ")

C9_Witness ==
    /\ job_request.kind = "request"
    /\ job_config.pipeline_name = "/w/pipe"
    /\ Contains(Cmd, "cd /etc/nextflow/config/pipe && nextflow")

\* C10: a pipeline reference that both ends in .nf and is an existing
\* directory yields the directory form: directory change plus "run .", no
\* -revision, and <mount>/config/<name>.nf is not the run target
C10_DirectoryTakesPrecedence ==
    (/\ job_request.kind = "request"
     /\ endswith(job_config.pipeline_name, ".nf")
     /\ Path_is_dir(job_config.pipeline_name)) =>
        LET mounted == job_config.config_mount_path \o "/config/"
                       \o Path_name(job_config.pipeline_name)
        IN  /\ Contains(Cmd, " && cd " \o mounted \o " && nextflow ")
            /\ Contains(Cmd, " run . ")
            /\ ~Contains(Cmd, "-revision")
            /\ ~Contains(Cmd, "run " \o mounted)

C10_Witness ==
    /\ job_request.kind = "request"
    /\ job_config.pipeline_name = "/w/dir.nf"
    /\ Contains(Cmd, " run . ")

\* the command build returns for the configuration with no resume token
PlainCmd == NextflowCommandBuilder_build([job_config EXCEPT !.resume = None]).value

\* C11: for a resume token RUN_NAME,SESSION_ID and every kind of pipeline
\* reference, the command contains "-name RUN_NAME -resume SESSION_ID", does
\* not contain the default "-name <workflowrun_id>" clause, and is otherwise
\* the command built without resume: the same text before and after the
\* run-naming clause
C11_ResumeReplacesRunName ==
    (job_request.kind = "request" /\ Truthy(job_config.resume)) =>
        LET parts == split(job_config.resume, ",")
            clause == "-name " \o parts[1] \o " -resume " \o parts[2]
            default == "-name " \o job_config.workflowrun_id
            plain == PlainCmd
        IN  /\ Contains(Cmd, " " \o clause)
            /\ ~Contains(Cmd, default)
            /\ \E i \in 1..Len(plain) :
                  /\ SubSeq(plain, i, i + Len(default) - 1) = default
                  /\ Cmd = SubSeq(plain, 1, i - 1) \o clause
                            \o SubSeq(plain, i + Len(default), Len(plain))

C11_Witness ==
    /\ job_request.kind = "request"
    /\ job_config.resume = "run123,sess456"
    /\ Path_is_dir(job_config.pipeline_name)
    /\ Truthy(job_config.params_file)
    /\ Contains(Cmd, " -name run123 -resume sess456 -c ")

\* whether a resume token splits on commas into exactly two non-empty parts
WellFormedResume(token) ==
    LET parts == split(token, ",")
    IN  Len(parts) = 2 /\ parts[1] # "" /\ parts[2] # ""

\* C12: for every non-empty resume token that does not split on commas into
\* exactly two non-empty parts (no comma, more than one comma, empty run name,
\* empty session id) build raises and no command is returned
C12_MalformedResumeRejected ==
    (/\ Stepped("launch_job")
     /\ Truthy(job_config.resume)
     /\ ~WellFormedResume(job_config.resume)) =>
        /\ StepRaised("launch_job")
        /\ error = "ValueError"
        /\ job_request = NoRequest

\* run identifiers of other configurations to compare with: the same first
\* and last 8 characters, the same first 8 only, the same last 8 only
OtherRunIds ==
    { "q1b2c3d4-0000-4000-8000-00002a3b4c5d",
      "q1b2c3d4-e5f6-4a7b-8c9d-0e1f99999999",
      "z9b2c3d4-e5f6-4a7b-8c9d-0e1f2a3b4c5d" }

\* C13: job_id is nf-runner-<sample_id lower-cased, commas replaced by
\* dashes>-<first 8 characters of workflowrun_id>, where sample_id is the
\* configuration's (the last 8 characters of workflowrun_id when the caller
\* supplied none); any other configuration with the same sample_id and the same
\* first 8 characters of workflowrun_id has the same job_id
C13_JobIdDeterministic ==
    Configured =>
        /\ job_config.job_id = "nf-runner-" \o lower(replace(job_config.sample_id, ",", "-"))
                                 \o "-" \o SubSeq(job_config.workflowrun_id, 1, 8)
        /\ ~Truthy(args.sample_id) =>
              job_config.sample_id = SubSeq(job_config.workflowrun_id, 29, 36)
        /\ \A s \in SampleIds, w \in OtherRunIds :
              LET other == GCPJobConfigBuilder_build([args EXCEPT !.sample_id = s], w)
              IN  (/\ other.sample_id = job_config.sample_id
                   /\ SubSeq(w, 1, 8) = SubSeq(job_config.workflowrun_id, 1, 8)) =>
                      other.job_id = job_config.job_id

C13_Witness ==
    /\ Configured
    /\ ~Truthy(args.sample_id)
    /\ \E w \in OtherRunIds :
          /\ w # job_config.workflowrun_id
          /\ SubSeq(w, 1, 8) = SubSeq(job_config.workflowrun_id, 1, 8)
          /\ GCPJobConfigBuilder_build(args, w).sample_id = job_config.sample_id
          /\ GCPJobConfigBuilder_build(args, w).job_id = job_config.job_id

Registrations(registry, n) ==
    << [op |-> "register", registry |-> registry,
        key |-> IF registry = "backend" THEN "google-batch" ELSE "oncoanalyser",
        value |-> IF registry = "backend" THEN << "GCPBatchClient", "GCPJobConfigBuilder" >>
                  ELSE "OncoanalyserPlugin"] >>
    \o SelectSeq(SubSeq(calls, 1, n), LAMBDA c : c.op = "register" /\ c.registry = registry)

\* the distinct keys of a sequence of register calls, in order of first use
RECURSIVE FirstKeys(_, _)
FirstKeys(regs, seen) ==
    IF regs = << >> THEN << >>
    ELSE IF Head(regs).key \in seen THEN FirstKeys(Tail(regs), seen)
    ELSE << Head(regs).key >> \o FirstKeys(Tail(regs), seen \cup {Head(regs).key})

\* the text of a list of keys: ['a', 'b']
KeyListing(ks) == "[" \o join(", ", [i \in 1..Len(ks) |-> "'" \o ks[i] \o "'"]) \o "]"

\* C15: after any sequence of register calls, get(k) returns the value most
\* recently registered under k; get of a key never registered raises an error
\* whose message lists exactly the keys registered at that time; a registry
\* holds exactly what the register calls put there, so no get changes it
C15_RegistryLookup ==
    /\ \A i \in 1..Len(calls) :
          calls[i].op = "get" =>
              LET regs == Registrations(calls[i].registry, i)
                  same == SelectSeq(regs, LAMBDA c : c.key = calls[i].key)
                  noun == calls[i].registry
              IN  IF same # << >>
                  THEN /\ calls[i].result.raised = None
                       /\ calls[i].result.value = same[Len(same)].value
                  ELSE /\ calls[i].result.raised = "ValueError"
                       /\ calls[i].result.message =
                             "Unknown " \o noun \o ": '" \o calls[i].key \o "'. Available "
                             \o noun \o "s: " \o KeyListing(FirstKeys(regs, {}))
    /\ \A r \in {"backend", "plugin"} :
          LET regs == Registrations(r, Len(calls))
          IN  /\ registry_keys(registries[r]) = FirstKeys(regs, {})
              /\ \A j \in 1..Len(registries[r]) :
                    LET same == SelectSeq(regs, LAMBDA c : c.key = registries[r][j].key)
                    IN  registries[r][j].value = same[Len(same)].value

C15_Witness ==
    /\ Len(calls) = 3
    /\ calls[1] = [op |-> "register", registry |-> "backend", key |-> "google-batch",
                   value |-> << "AWSBatchClient", "AWSJobConfigBuilder" >>]
    /\ calls[2].op = "get"
    /\ calls[2].key = "google-batch"
    /\ calls[2].result.value = << "AWSBatchClient", "AWSJobConfigBuilder" >>
    /\ calls[3].op = "get"
    /\ calls[3].result.message
          = "Unknown backend: 'azure-batch'. Available backends: ['google-batch']"

\* C16: cancel_job raises NotImplementedError whenever it is called (before
\* staging, after staging, after launch, after a failure, dry-run or live),
\* makes no API call and changes neither the configuration, the files, the
\* log nor the position of the run: no step leads to a cancelled state
C16_CancelNotImplemented ==
    [][calls' # calls =>
          /\ calls'[Len(calls')].op = "cancel_job"
          /\ calls'[Len(calls')].raised = "NotImplementedError"
          /\ api_calls' = api_calls
          /\ files' = files
          /\ log' = log
          /\ job_config' = job_config
          /\ context' = context
          /\ job_request' = job_request
          /\ pc' = pc
          /\ pc' \in {"plugin", "stage", "launch", "done", "failed"}]_vars

C16_Witness ==
    /\ calls # << >>
    /\ calls[1] = [op |-> "cancel_job", at |-> "done", raised |-> "NotImplementedError"]
    /\ ~args.dry_run
    /\ pc = "done"
    /\ CallsTo({"create_job"}) # {}

\* the local paths handed to upload_from_filename so far, in call order
Uploads ==
    LET idx == SelectSeq([i \in 1..Len(api_calls) |-> i],
                         LAMBDA i : api_calls[i].api = "upload_from_filename")
    IN  [k \in 1..Len(idx) |-> api_calls[idx[k]].filename]

\* the lines the single-file uploads of a dry run have logged, in order
DryRunUploadLines ==
    SelectSeq(log, LAMBDA l : startswith(l, "[DRY-RUN] Will upload ") /\ ~endswith(l, "/"))

\* whether line l reports the executor config as written (or, in a dry run,
\* as to be written)
IsExecutorConfigLine(l) ==
    \/ startswith(l, "GCP Batch executor config written to: ")
    \/ startswith(l, "[DRY-RUN] Will write executor config file ")

\* whether line l reports an upload, attempted or intended
IsUploadLine(l) ==
    \/ startswith(l, "Uploaded ")
    \/ startswith(l, "[DRY-RUN] Will upload ")
    \/ startswith(l, "Failed to access or upload ")
    \/ startswith(l, "Failed to upload ")

\* C17: stage_resources builds the executor config before any upload, then
\* uploads exactly the non-empty ones among config_file, params_file,
\* samplesheet and executor_config_file, in that order (the first failure ends
\* the sequence); executor_config_file is never empty once the configuration
\* is constructed, so every staging that returns has uploaded it; after a
\* plugin has set samplesheet, that file and not the caller's is uploaded
C17_StagingOrder ==
    Configured =>
        LET c == job_config
            four == SelectSeq(<< c.config_file, c.params_file, c.samplesheet,
                                 c.executor_config_file >>, LAMBDA f : f # None /\ f # "")
            n == Len(four)
        IN  /\ c.executor_config_file # None /\ c.executor_config_file # ""
            /\ \A i, j \in 1..Len(log) :
                  (IsUploadLine(log[j]) /\ IsExecutorConfigLine(log[i])) => i < j
            /\ (\E j \in 1..Len(log) : IsUploadLine(log[j])) =>
                  /\ \E i \in 1..Len(log) : IsExecutorConfigLine(log[i])
                  /\ files[c.executor_config_file].kind = "executor_config"
            /\ Len(Uploads) <= n + 1
            /\ \A i \in 1..Len(Uploads) :
                  Uploads[i] = IF i <= n THEN four[i] ELSE c.pipeline_name
            /\ (Returned("stage_resources") /\ ~c.dry_run) =>
                  /\ Len(Uploads) >= n
                  /\ \E i \in 1..Len(Uploads) : Uploads[i] = c.executor_config_file
            /\ (Returned("stage_resources") /\ c.dry_run) =>
                  /\ Len(DryRunUploadLines) >= n
                  /\ \A i \in 1..n :
                        Contains(DryRunUploadLines[i], "/" \o Path_name(four[i]) \o " to gs://")
            /\ (Returned("plugin.load") /\ Returned("stage_resources") /\ ~c.dry_run) =>
                  /\ \E i \in 1..Len(Uploads) : Uploads[i] = c.tmp_dir \o "/samplesheet.csv"
                  /\ \A i \in 1..Len(Uploads) : Uploads[i] # "/w/samplesheet.csv"

C17_Witness ==
    /\ ~args.dry_run
    /\ Returned("plugin.load")
    /\ Returned("stage_resources")
    /\ args.samplesheet = "/w/samplesheet.csv"
    /\ Len(Uploads) >= 4
    /\ Uploads[1] = "/w/custom.config"
    /\ Uploads[3] = job_config.tmp_dir \o "/samplesheet.csv"
    /\ Uploads[4] = job_config.executor_config_file

\* the path of file f relative to directory root
RelativeTo(f, root) == SubSeq(f, Len(root) + 2, Len(f))

\* the regular files under root that are not inside a .git directory below
\* root, each by its path relative to root
FilesToUpload(root) ==
    { RelativeTo(FsFiles[i], root) :
        i \in { j \in 1..Len(FsFiles) :
                  /\ startswith(FsFiles[j], root \o "/")
                  /\ ~startswith(RelativeTo(FsFiles[j], root), ".git/")
                  /\ ~Contains(RelativeTo(FsFiles[j], root), "/.git/") } }

\* C18: in live mode the files upload_directory hands to the transfer manager
\* are exactly the regular files under root that are not inside a .git
\* directory below root, wherever root itself lies, each once and named by its
\* path relative to root, under the blob prefix
\* <prefix>/<workflowrun_id>/config/<directory-basename>/
C18_DirectoryUploadSet ==
    \A i \in CallsTo({"upload_many_from_filenames"}) :
        LET c == api_calls[i]
        IN  /\ {c.filenames[k] : k \in 1..Len(c.filenames)} = FilesToUpload(c.source_directory)
            /\ Len(c.filenames) = Cardinality(FilesToUpload(c.source_directory))
            /\ c.blob_name_prefix = RunPrefix \o "/" \o job_config.workflowrun_id \o "/config/"
                                      \o Path_name(c.source_directory) \o "/"
            /\ c.bucket = RunBucket

\* C19: when transfers of a directory upload fail, every file of the batch has
\* still been attempted (one result per file), upload_directory raises, the
\* failure surfaced is that of the first failed file in enumeration order,
\* success is not reported, and nothing follows the batch: no removal of the
\* files already transferred and no later step
C19_TransferFailureSurfaces ==
    \A i \in CallsTo({"upload_many_from_filenames"}) :
        LET c == api_calls[i]
            bad == {k \in 1..Len(c.filenames) : ~c.results[k]}
            root == c.source_directory
        IN  /\ DOMAIN c.results = 1..Len(c.filenames)
            /\ Len(c.filenames) = Len(iter_directory_files(root, {".git"}))
            /\ (bad # {}) =>
                  /\ i = Len(api_calls)
                  /\ error = "GoogleAPIError"
                  /\ pc = "failed"
                  /\ StepRaised("stage_resources")
                  /\ ~Stepped("launch_job")
                  /\ log[Len(log)] = "Failed to upload "
                                       \o c.filenames[CHOOSE k \in bad : \A m \in bad : k <= m]
                  /\ ~\E j \in 1..Len(log) : startswith(log[j], "Uploaded " \o root \o " to ")
            /\ (bad = {}) =>
                  /\ Returned("stage_resources")
                  /\ \E j \in 1..Len(log) : startswith(log[j], "Uploaded " \o root \o " to ")

C19_Witness ==
    \E i \in CallsTo({"upload_many_from_filenames"}) :
        /\ api_calls[i].results = << TRUE, FALSE >>
        /\ error = "GoogleAPIError"
        /\ log[Len(log)] = "Failed to upload modules/a.nf"

\* the rendered "k": "v" items of the executor config that name key k
RenderedLabelItems(k) ==
    LET path == job_config.executor_config_file
    IN  {item \in files[path].resource_labels : startswith(item, "\"" \o k \o "\": ")}

\* C20: whatever labels the caller supplied (none, empty, a map without or
\* with the key), the constructed configuration's labels["workflowrun_id"] is
\* the configuration's workflowrun_id, and so it is in the job request built
\* by launch_job and in the rendered executor config
C20_RunIdLabel ==
    Configured =>
        LET id == job_config.workflowrun_id
            path == job_config.executor_config_file
        IN  /\ "workflowrun_id" \in DOMAIN job_config.labels
            /\ job_config.labels["workflowrun_id"] = id
            /\ job_request.kind = "request" =>
                  /\ "workflowrun_id" \in DOMAIN job_request.labels
                  /\ job_request.labels["workflowrun_id"] = id
            /\ (path \in DOMAIN files /\ files[path].kind = "executor_config") =>
                  RenderedLabelItems("workflowrun_id")
                      = {"\"workflowrun_id\": \"" \o id \o "\""}

C20_Witness ==
    /\ Configured
    /\ "workflowrun_id" \in DOMAIN args.labels
    /\ args.labels["workflowrun_id"] = "stale-run"
    /\ job_request.kind = "request"
    /\ job_request.labels["team"] = "oncology"
    /\ files[job_config.executor_config_file].kind = "executor_config"

\* C21: once launch_job has built the request, <tmp_dir>/job_request.txt
\* exists: in dry-run it holds the request only; in live mode it holds the
\* request when the submission has failed and the provider's response when
\* it has succeeded
C21_RequestArtifact ==
    (Configured /\ job_request.kind = "request") =>
        LET path == job_config.tmp_dir \o "/job_request.txt"
        IN  /\ path \in DOMAIN files
            /\ job_config.dry_run => files[path] = job_request
            /\ (~job_config.dry_run /\ StepRaised("launch_job")) => files[path] = job_request
            /\ (~job_config.dry_run /\ Returned("launch_job")) =>
                  files[path] = [kind |-> "response", job |-> job_request]

\* C22: whenever plugin option remote_sample_bucket_uri is missing, plugin
\* option filetype is missing, or sample_id holds no comma, load raises a
\* validation error before any object-storage call and before any
\* samplesheet file is written
C22_PluginValidatesFirst ==
    (/\ Stepped("plugin.load")
     /\ \/ "remote_sample_bucket_uri" \notin DOMAIN job_config.plugin_options
        \/ "filetype" \notin DOMAIN job_config.plugin_options
        \/ SepPositions(job_config.sample_id, ",") = {}) =>
        /\ StepRaised("plugin.load")
        /\ error = "ValueError"
        /\ api_calls = << >>
        /\ (job_config.tmp_dir \o "/samplesheet.csv") \notin DOMAIN files

C22_Witness ==
    /\ StepRaised("plugin.load")
    /\ "remote_sample_bucket_uri" \in DOMAIN job_config.plugin_options
    /\ "filetype" \notin DOMAIN job_config.plugin_options
    /\ job_config.sample_id = "T1,N1"
    /\ ~job_config.dry_run

MatchingBlobs(c) ==
    { i \in 1..Len(Blobs) :
        /\ Blobs[i].bucket = c.bucket_name
        /\ startswith(Blobs[i].name, c.bucket_prefix)
        /\ endswith(Blobs[i].name, c.filename_extension)
        /\ \/ c.filename_prefix = None
           \/ startswith(Path_name(Blobs[i].name), c.filename_prefix) }

\* C24: get_latest_file returns gs://<bucket>/<name> of a matching object
\* whose updated time is maximal among the matching objects, the first listed
\* among those of maximal time; it returns the empty string exactly when no
\* object matches
C24_LatestMatchingObject ==
    \A n \in 1..Len(calls) :
        calls[n].op = "get_latest_file" =>
            LET c == calls[n]
                M == MatchingBlobs(c)
            IN  /\ (c.result = "") <=> (M = {})
                /\ M # {} =>
                      \E i \in M :
                          /\ c.result = "gs://" \o c.bucket_name \o "/" \o Blobs[i].name
                          /\ \A j \in M : Blobs[j].updated <= Blobs[i].updated
                          /\ \A j \in M : Blobs[j].updated = Blobs[i].updated => i <= j

C24_Witness ==
    /\ calls # << >>
    /\ calls[1].op = "get_latest_file"
    /\ calls[1].filename_prefix = "N1"
    /\ calls[1].bucket_prefix = "bams"
    /\ calls[1].result = "gs://samples/bams/N1.bam"

\* the path of an object key relative to the staging area of the run
RelKey(key) ==
    LET root == parse_gcs_path("gs://" \o job_config.remote_run_path)[2] \o "/"
                \o job_config.workflowrun_id \o "/"
    IN  SubSeq(key, Len(root) + 1, Len(key))

\* C25: in a live run that reaches the job request, every file that was
\* uploaded and that the command references (custom config, params file,
\* executor config, .nf pipeline file, pipeline directory) is referenced by
\* the command at <mount>/<key relative to the staging area of the run>
C25_StagingMatchesCommand ==
    (Configured /\ job_request.kind = "request" /\ ~job_config.dry_run) =>
        LET cmd == job_request.commands[2]
            mount == context.config_mount_path \o "/"
        IN  \A i \in 1..Len(api_calls) :
                /\ (api_calls[i].api = "upload_from_filename" /\ ~api_calls[i].raised) =>
                      LET f == api_calls[i].filename
                          ref == mount \o RelKey(api_calls[i].blob)
                      IN  /\ f = job_config.config_file => Contains(cmd, "-c " \o ref)
                          /\ f = job_config.executor_config_file => Contains(cmd, "-c " \o ref)
                          /\ f = job_config.params_file =>
                                Contains(cmd, "-params-file " \o ref)
                          /\ f = job_config.pipeline_name => Contains(cmd, "run " \o ref)
                /\ (api_calls[i].api = "upload_many_from_filenames" /\ ~api_calls[i].raised) =>
                      LET key == RelKey(api_calls[i].blob_name_prefix)
                      IN  Contains(cmd, "cd " \o mount \o SubSeq(key, 1, Len(key) - 1)
                                          \o " && nextflow")

\* C26: within one staging, two single-file uploads of distinct local files
\* never write the same object key
C26_NoKeyCollision ==
    \A i, j \in 1..Len(api_calls) :
        (/\ api_calls[i].api = "upload_from_filename"
         /\ api_calls[j].api = "upload_from_filename"
         /\ resolve_path(api_calls[i].filename) # resolve_path(api_calls[j].filename)) =>
            << api_calls[i].bucket, api_calls[i].blob >>
                # << api_calls[j].bucket, api_calls[j].blob >>

\* the single-file uploads of the pipeline reference, attempted (live run)
\* or announced (dry run)
PipelineFileUploads ==
    { i \in 1..Len(api_calls) :
        /\ api_calls[i].api = "upload_from_filename"
        /\ api_calls[i].filename = job_config.pipeline_name }
    \cup
    { 0 - i : i \in { k \in 1..Len(log) :
        startswith(log[k], "[DRY-RUN] Will upload "
                             \o relative_to_grandparent(job_config.pipeline_name) \o " to ") } }

\* the directory uploads of the pipeline reference, attempted or announced
PipelineDirectoryUploads ==
    { i \in 1..Len(api_calls) :
        /\ api_calls[i].api = "upload_many_from_filenames"
        /\ api_calls[i].source_directory = job_config.pipeline_name }
    \cup
    { 0 - i : i \in { k \in 1..Len(log) :
        startswith(log[k], "[DRY-RUN] Will upload " \o job_config.pipeline_name \o " to ") } }

\* C27: the pipeline source is staged through exactly one path: nothing for
\* a remote reference, one single-file upload for a local .nf file, one
\* upload_directory for a local directory; a directory is never uploaded as
\* a single file, even when its name ends in .nf
C27_OnePipelinePath ==
    Configured =>
        LET is_dir == Path_is_dir(job_config.pipeline_name)
            is_nf == endswith(job_config.pipeline_name, ".nf")
        IN  /\ is_dir => PipelineFileUploads = {}
            /\ ~is_dir => PipelineDirectoryUploads = {}
            /\ (~is_dir /\ ~is_nf) => PipelineFileUploads = {}
            /\ Returned("stage_resources") =>
                  /\ is_dir => Cardinality(PipelineDirectoryUploads) = 1
                  /\ (~is_dir /\ is_nf) => Cardinality(PipelineFileUploads) = 1

\* C28: a plugin load that fails validation (a required option missing, or a
\* sample identifier that names no pair) leaves the job configuration as it
\* was before the call, samplesheet included
C28_FailedLoadLeavesConfiguration ==
    [][(/\ pc = "plugin"
        /\ trace' = Append(trace, [step |-> "plugin.load", outcome |-> "raised"])
        /\ \/ "remote_sample_bucket_uri" \notin DOMAIN job_config.plugin_options
           \/ "filetype" \notin DOMAIN job_config.plugin_options
           \/ SepPositions(job_config.sample_id, ",") = {})
       => /\ job_config' = job_config
          /\ job_config'.samplesheet = job_config.samplesheet]_vars

\* C29: the constructed configuration has upload_max_workers >= 1 whatever
\* integer --upload-max-workers was given, and so has every worker bound
\* passed to a directory transfer
C29_PositiveWorkerBound ==
    /\ Configured => job_config.upload_max_workers >= 1
    /\ \A i \in 1..Len(api_calls) :
          api_calls[i].api = "upload_many_from_filenames" => api_calls[i].max_workers >= 1

\* C30: once stage_resources or launch_job has run, the job_config.json dump
\* holds, field for field, the configuration those steps used, with or
\* without a plugin
C30_DumpIsActiveConfiguration ==
    (Stepped("stage_resources") \/ Stepped("launch_job")) =>
        LET path == job_config.tmp_dir \o "/job_config.json"
        IN  /\ path \in DOMAIN files
            /\ files[path].kind = "job_config"
            /\ \A k \in DOMAIN job_config : files[path].fields[k] = job_config[k]

====
